---- MODULE Spec2Model ----
(***************************************************************************)
(* Model of youtube_dl_gui/DownloadObject.py: the DownloadObject           *)
(* supervisor (download / stop / clear_dash), the child process it spawns  *)
(* with two pipes, and the line classifier extract_data; and of            *)
(* youtube_dl_gui/OptionsParser.py: the OptionsParser that turns the       *)
(* options mapping into the argument list.                                 *)
(*                                                                         *)
(* Strings.  A Python string is a sequence of atoms.  An atom is one of    *)
(* the characters " ", "/", "%" or a word fragment that contains none of   *)
(* them; the fragments used are chosen so that no fragment is a            *)
(* concatenation of others, hence two sequences are equal exactly when the *)
(* Python strings are.  None is a value different from every string.       *)
(***************************************************************************)
EXTENDS Integers, Sequences, FiniteSets, TLC

\* ------------------------------------------------------------------------
\* Bounds of the model
\* ------------------------------------------------------------------------
\* lines one child process writes (both streams together)
MaxLines == 2
\* download() invocations on the one DownloadObject instance
MaxRuns == 2
\* lines an OS pipe holds before the writer blocks
PipeCap == 1
\* atoms of a destination path drawn for the classifier specification
MaxPathLen == 4
\* options that differ from their default in a configuration
MaxChanged == 3
\* parse() calls on the one OptionsParser instance
MaxParses == 2

\* ------------------------------------------------------------------------
\* Values
\* ------------------------------------------------------------------------
None == <<"<None>">>
EmptyStr == <<>>
SP == <<" ">>

\* download() return codes
OK == 0
ERROR == 1
STOPPED == 2
ALREADY == 3

Keys == {"playlist_index", "playlist_size", "filesize", "filename",
         "percent", "status", "speed", "eta"}

\* the empty dictionary {}
EmptyDict == [k \in {} |-> None]

\* ------------------------------------------------------------------------
\* String helpers (str.rstrip, str.split(' '), ' '.join, os.path.basename)
\* ------------------------------------------------------------------------
RECURSIVE rstrip(_)
rstrip(s) ==
    IF s # <<>> /\ s[Len(s)] = " " THEN rstrip(SubSeq(s, 1, Len(s) - 1)) ELSE s

\* [string for string in s.split(' ') if string != '']
RECURSIVE SplitFrom(_, _, _)
SplitFrom(s, i, cur) ==
    IF i > Len(s)
    THEN IF cur = <<>> THEN <<>> ELSE <<cur>>
    ELSE IF s[i] = " "
         THEN (IF cur = <<>> THEN <<>> ELSE <<cur>>) \o SplitFrom(s, i + 1, <<>>)
         ELSE SplitFrom(s, i + 1, Append(cur, s[i]))

Tokens(s) == SplitFrom(s, 1, <<>>)

\* ' '.join(toks)
RECURSIVE Join(_)
Join(toks) ==
    IF toks = <<>> THEN <<>>
    ELSE IF Len(toks) = 1 THEN toks[1]
    ELSE toks[1] \o SP \o Join(Tail(toks))

\* os.path.basename (posixpath): what follows the last "/"
RECURSIVE basename(_)
basename(p) ==
    IF \E i \in 1..Len(p) : p[i] = "/"
    THEN basename(Tail(p))
    ELSE p

\* ------------------------------------------------------------------------
\* extract_data
\* ------------------------------------------------------------------------
Downloading == <<"Downloading">>
AlreadyDownloaded == <<"Already", " ", "Downloaded">>
PostProcessing == <<"Post", " ", "Processing">>
PreProcessing == <<"Pre", " ", "Processing">>

\* dictionary d with d[k] = v added or overwritten
Put(d, k, v) == [x \in DOMAIN d \cup {k} |-> IF x = k THEN v ELSE d[x]]

\* a finished call: the value returned, or an exception (IndexError)
Returned(d) == [exc |-> FALSE, data |-> d]
Raised == [exc |-> TRUE, data |-> EmptyDict]

\* "# Get filename": rest is the token list after header.pop(0); rest[1] is
\* Python's stdout[0]
GetFilename(d, rest) ==
    IF rest[1] = <<"Destination:">>
    THEN Put(d, "filename", Join(Tail(rest)))
    ELSE d

\* "# Get progress info"; needs stdout[2], stdout[4], stdout[6]
ProgressRaises(rest) ==
    "%" \in {rest[1][i] : i \in 1..Len(rest[1])}
    /\ rest[1] # <<"100", "%">>
    /\ Len(rest) < 7

GetProgress(d, rest) ==
    IF "%" \in {rest[1][i] : i \in 1..Len(rest[1])}
    THEN IF rest[1] = <<"100", "%">>
         THEN Put(Put(d, "speed", EmptyStr), "eta", EmptyStr)
         ELSE Put(Put(Put(Put(d, "percent", rest[1]), "filesize", rest[3]),
                      "speed", rest[5]), "eta", rest[7])
    ELSE d

\* "# Get playlist info"; needs stdout[1], then stdout[2] and stdout[4]
PlaylistRaises(rest) ==
    rest[1] = <<"Downloading">>
    /\ (Len(rest) < 2 \/ (rest[2] = <<"video">> /\ Len(rest) < 5))

GetPlaylist(d, rest) ==
    IF rest[1] = <<"Downloading">> /\ rest[2] = <<"video">>
    THEN Put(Put(d, "playlist_index", rest[3]), "playlist_size", rest[5])
    ELSE d

\* "# Get file already downloaded status"
GetAlready(d, rest) ==
    IF rest[Len(rest)] = <<"downloaded">>
    THEN Put(d, "status", AlreadyDownloaded)
    ELSE d

extract_data(stdout) ==
    LET toks == Tokens(stdout) IN
    IF Len(toks) = 0 THEN Returned(EmptyDict)
    ELSE LET header == Head(toks)
             rest == Tail(toks)
         IN IF header = <<"[download]">>
            THEN IF Len(rest) = 0 \/ ProgressRaises(rest) \/ PlaylistRaises(rest)
                 THEN Raised
                 ELSE Returned(
                        GetAlready(
                          GetPlaylist(
                            GetProgress(
                              GetFilename(Put(EmptyDict, "status", Downloading),
                                          rest),
                              rest),
                            rest),
                          rest))
            ELSE IF header = <<"[ffmpeg]">>
                 THEN Returned(Put(EmptyDict, "status", PostProcessing))
                 ELSE Returned(Put(EmptyDict, "status", PreProcessing))

\* ------------------------------------------------------------------------
\* State
\* ------------------------------------------------------------------------
VARIABLES
    \* DownloadObject fields
    _return_code, _files_list, _proc, _data, data_hook, logger,
    \* the thread running download(): position, locals, outcome
    pc, stdout, stderr, data, updated, retval, outcome, runs,
    \* the thread running stop()
    spc,
    \* the child process and its two pipes
    child, cwrite, outPipe, errPipe, nwritten,
    \* the filesystem and clear_dash()
    fs, clearRaised,
    \* the collaborators: calls of data_hook in this loop cycle, its last
    \* argument, and the texts given to logger.log in this invocation
    cycleHooks, hookArg, logged,
    \* history of the current invocation
    stopAlive, stopDone, stopSeen, cLast, pLast, outWritten, outMerged,
    \* OptionsManager.options, the OptionsParser built on it (its list), the
    \* list the last parse() returned and the number of parse() calls
    options, parser, options_list, parseRet, parses

objVars == <<_return_code, _files_list, _proc, _data, data_hook, logger>>
dlVars == <<pc, stdout, stderr, data, updated, retval, outcome, runs>>
stopVars == <<spc>>
childVars == <<child, cwrite, outPipe, errPipe, nwritten>>
fsVars == <<fs, clearRaised>>
obsVars == <<cycleHooks, hookArg, logged>>
histVars == <<stopAlive, stopDone, stopSeen, cLast, pLast, outWritten, outMerged>>
optVars == <<options, parser, options_list, parseRet, parses>>
downloadVars == <<objVars, dlVars, stopVars, childVars, fsVars, obsVars, histVars>>
vars == <<downloadVars, optVars>>

\* ------------------------------------------------------------------------
\* Inputs: the lines a child process may print, the paths it may create
\* ------------------------------------------------------------------------
PathA == <<"/", "tmp", "/", "a">>
PathB == <<"/", "tmp", "/", "b">>
FsPaths == {PathA, PathB}

LineBlank == <<>>
LinePre == <<"[youtube]", " ", "x">>
LineDestA == <<"[download]", " ", "Destination:", " ">> \o PathA
LineDestB == <<"[download]", " ", "Destination:", " ">> \o PathB
LineAlready == <<"[download]", " ">> \o PathA
                 \o <<" ", "has", " ", "already", " ", "been", " ", "downloaded">>
LineProgress == <<"[download]", " ", " ", "42", "%", " ", "of", " ", "10MiB", " ",
                  "at", " ", "1MiB", "/", "s", " ", "ETA", " ", "00:10">>
LineBad == <<"[download]">>
LineErr == <<"ERROR:", " ", "x">>

OutLines == {LineBlank, LineDestA, LineDestB, LineAlready, LineBad}
ErrLines == {LineBlank, LineErr}

NoWrite == [stream |-> "none", line |-> <<>>]
NoCode == -1

\* ------------------------------------------------------------------------
\* OptionsManager.options: the configuration OptionsParser reads
\* ------------------------------------------------------------------------
\* every option at its default: the optional ones hold the value for which
\* OptionsParser emits nothing
OptDefault ==
    [save_path |-> <<"/", "tmp", "/">>,
     output_format |-> "title",
     output_template |-> <<"%", "(uploader)s-", "%", "(title)s.", "%", "(ext)s">>,
     restrict_filenames |-> FALSE,
     username |-> EmptyStr, password |-> EmptyStr, video_password |-> EmptyStr,
     retries |-> 10,
     proxy |-> EmptyStr, user_agent |-> EmptyStr, referer |-> EmptyStr,
     video_format |-> "default", dash_audio_format |-> "none",
     playlist_start |-> 1, playlist_end |-> 0, max_downloads |-> 0,
     ignore_errors |-> FALSE, write_description |-> FALSE,
     write_info |-> FALSE, write_thumbnail |-> FALSE,
     min_filesize |-> <<"0">>, max_filesize |-> <<"0">>,
     write_all_subs |-> FALSE, write_auto_subs |-> FALSE,
     write_subs |-> FALSE, subs_lang |-> "English", embed_subs |-> FALSE,
     to_audio |-> FALSE, audio_format |-> <<"mp3">>, audio_quality |-> "mid",
     keep_video |-> FALSE,
     cmd_args |-> EmptyStr]

OptKeys == DOMAIN OptDefault

\* the other values drawn for each option
OptAlt ==
    [save_path |-> {<<"/", "home", "/">>},
     output_format |-> {"id", "custom"},
     output_template |-> {},
     restrict_filenames |-> {TRUE},
     username |-> {<<"user">>}, password |-> {<<"secret">>},
     video_password |-> {<<"vsecret">>},
     retries |-> {0, 123},
     proxy |-> {<<"127.0.0.1:8080">>}, user_agent |-> {<<"agent">>},
     referer |-> {<<"http:", "/", "/", "ref">>},
     video_format |-> {"mp4 [1280x720]", "mp4 1080p(DASH)"},
     dash_audio_format |-> {"DASH m4a audio 128k"},
     playlist_start |-> {2}, playlist_end |-> {15}, max_downloads |-> {3},
     ignore_errors |-> {TRUE}, write_description |-> {TRUE},
     write_info |-> {TRUE}, write_thumbnail |-> {TRUE},
     min_filesize |-> {<<"1m">>}, max_filesize |-> {<<"2g">>},
     write_all_subs |-> {TRUE}, write_auto_subs |-> {TRUE},
     write_subs |-> {TRUE}, subs_lang |-> {"Greek"}, embed_subs |-> {TRUE},
     to_audio |-> {TRUE}, audio_format |-> {<<"wav">>},
     audio_quality |-> {"high"},
     keep_video |-> {TRUE},
     cmd_args |-> {<<"--foo", " ", "\t", "bar", " ">>}]

\* no OptionsParser yet, the configuration at its defaults
InitOptions ==
    /\ options = OptDefault
    /\ parser = "None"
    /\ options_list = <<>>
    /\ parseRet = <<>>
    /\ parses = 0

\* ------------------------------------------------------------------------
\* DownloadObject.__init__
\* ------------------------------------------------------------------------
InitData == [k \in Keys |-> None]

Init ==
    /\ _return_code = 0
    /\ _files_list = <<>>
    /\ _proc = "None"
    /\ _data = InitData
    /\ \/ data_hook = "hook" /\ logger = "logger"
       \/ data_hook = "None" /\ logger = "None"
    /\ pc = "idle" /\ stdout = EmptyStr /\ stderr = EmptyStr
    /\ data = EmptyDict /\ updated = FALSE
    /\ retval = NoCode /\ outcome = "none" /\ runs = 0
    /\ spc = "idle"
    /\ child = "none" /\ cwrite = NoWrite
    /\ outPipe = <<>> /\ errPipe = <<>> /\ nwritten = 0
    /\ fs = {} /\ clearRaised = FALSE
    /\ cycleHooks = 0 /\ hookArg = EmptyDict /\ logged = <<>>
    /\ stopAlive = FALSE /\ stopDone = FALSE /\ stopSeen = FALSE
    /\ cLast = "none" /\ pLast = "none"
    /\ outWritten = 0 /\ outMerged = 0
    /\ InitOptions

\* ------------------------------------------------------------------------
\* DownloadObject._update_data, as four functions of the event
\* ------------------------------------------------------------------------
\* a merge without "data[key] = None" for the already-downloaded status
MergedDataKeepStatus(d, ev) ==
    [k \in DOMAIN d \cup DOMAIN ev |->
        IF k \in DOMAIN ev
        THEN IF k = "filename" THEN basename(ev[k]) ELSE ev[k]
        ELSE d[k]]

\* a merge that rebuilds the state from the event alone
MergedDataReset(d, ev) ==
    [k \in DOMAIN d \cup DOMAIN ev |->
        IF k \in DOMAIN ev
        THEN IF k = "filename" THEN basename(ev[k])
             ELSE IF k = "status" /\ ev[k] = AlreadyDownloaded THEN None
             ELSE ev[k]
        ELSE None]

\* self._data after the loop "for key in data"
MergedData(d, ev) ==
    [k \in DOMAIN d \cup DOMAIN ev |->
        IF k \in DOMAIN ev
        THEN IF k = "filename" THEN basename(ev[k])
             ELSE IF k = "status" /\ ev[k] = AlreadyDownloaded THEN None
             ELSE ev[k]
        ELSE d[k]]

\* a record that keeps only the newest file
_add_on_files_list_replace(fl, filename) == <<filename>>

\* DownloadObject._add_on_files_list
_add_on_files_list(fl, filename) == Append(fl, filename)

\* self._files_list after the loop
FilesAfter(fl, ev) ==
    IF "filename" \in DOMAIN ev THEN _add_on_files_list(fl, ev["filename"]) ELSE fl

\* self._return_code after the loop
CodeAfter(rc, ev) ==
    IF "status" \in DOMAIN ev /\ ev["status"] = AlreadyDownloaded
    THEN ALREADY
    ELSE rc

\* a merge that always reports a change
UpdatedAlways(ev) == TRUE

\* the value returned
Updated(ev) == DOMAIN ev # {}

\* ------------------------------------------------------------------------
\* DownloadObject.download
\* ------------------------------------------------------------------------
\* a liveness test that does not poll the process
_proc_is_alive_nopoll == _proc # "None"

\* DownloadObject._proc_is_alive
_proc_is_alive == _proc # "None" /\ child = "running"

\* a download() that keeps the result code of the previous invocation
StartCodeKeep(rc) == rc

\* "self._return_code = self.OK"
StartCode(rc) == OK

\* "if self._update_data(data): self._hook_data()"
ShouldHook(u) == u

\* the line a stdout line stands for in the result: "already" or nothing
IsAlreadyLine(line) ==
    LET r == extract_data(rstrip(line))
    IN ~r.exc /\ "status" \in DOMAIN r.data /\ r.data["status"] = AlreadyDownloaded

Download ==
    /\ pc = "idle"
    /\ runs < MaxRuns
    /\ _return_code' = StartCode(_return_code)
    /\ pc' = "create"
    /\ runs' = runs + 1
    /\ outcome' = "running"
    /\ retval' = NoCode
    /\ logged' = <<>>
    /\ cycleHooks' = 0
    /\ stopAlive' = FALSE /\ stopDone' = FALSE
    /\ stopSeen' = (spc # "idle")
    /\ cLast' = "none" /\ pLast' = "none"
    /\ outWritten' = 0 /\ outMerged' = 0
    /\ stdout' = EmptyStr /\ stderr' = EmptyStr
    /\ data' = EmptyDict /\ updated' = FALSE
    /\ hookArg' = EmptyDict
    /\ UNCHANGED <<_files_list, _proc, _data, data_hook, logger, stopVars,
                   childVars, fsVars>>
    /\ UNCHANGED optVars

\* DownloadObject._create_process: subprocess.Popen with two pipes
CreateProcess ==
    /\ pc = "create"
    /\ _proc' = "Popen"
    /\ child' = "running"
    /\ cwrite' = NoWrite
    /\ outPipe' = <<>> /\ errPipe' = <<>>
    /\ nwritten' = 0
    /\ pc' = "check"
    /\ UNCHANGED <<_return_code, _files_list, _data, data_hook, logger, stdout,
                   stderr, data, updated, retval, outcome, runs, stopVars,
                   fsVars, obsVars, histVars>>
    /\ UNCHANGED optVars

\* "while self._proc_is_alive():"
LoopCheck ==
    /\ pc = "check"
    /\ pc' = IF _proc_is_alive THEN "read_stdout" ELSE "return"
    /\ cycleHooks' = 0
    /\ UNCHANGED <<objVars, stdout, stderr, data, updated, retval, outcome, runs,
                   stopVars, childVars, fsVars, hookArg, logged, histVars>>
    /\ UNCHANGED optVars

\* stream.readline() returns once a line is in the pipe, or at end of file
\* (pipe empty and the writing end closed)
CanRead(pipe) == pipe # <<>> \/ child = "exited"

\* DownloadObject._read_stream
_read_stream(pipe) ==
    IF _proc = "None" THEN EmptyStr
    ELSE IF pipe # <<>> THEN rstrip(Head(pipe)) ELSE EmptyStr

\* a _read that reads stderr in every cycle
ReadsStderrAlways(out) == TRUE

\* DownloadObject._read: "if stdout == ''"
ReadsStderr(out) == out = EmptyStr

\* DownloadObject._read, first half: stdout
ReadStdout ==
    /\ pc = "read_stdout"
    /\ CanRead(outPipe)
    /\ stdout' = _read_stream(outPipe)
    /\ outPipe' = IF outPipe # <<>> THEN Tail(outPipe) ELSE outPipe
    /\ stderr' = EmptyStr
    /\ pc' = IF ReadsStderr(stdout') THEN "read_stderr" ELSE "extract"
    /\ UNCHANGED <<objVars, data, updated, retval, outcome, runs, stopVars,
                   child, cwrite, errPipe, nwritten, fsVars, obsVars, histVars>>
    /\ UNCHANGED optVars

\* DownloadObject._read, second half: stderr, only "if stdout == ''"
ReadStderr ==
    /\ pc = "read_stderr"
    /\ CanRead(errPipe)
    /\ stderr' = _read_stream(errPipe)
    /\ errPipe' = IF errPipe # <<>> THEN Tail(errPipe) ELSE errPipe
    /\ pc' = "extract"
    /\ UNCHANGED <<objVars, stdout, data, updated, retval, outcome, runs,
                   stopVars, child, cwrite, outPipe, nwritten, fsVars, obsVars,
                   histVars>>
    /\ UNCHANGED optVars

\* "data = extract_data(stdout)"; an IndexError leaves download() at once
Extract ==
    /\ pc = "extract"
    /\ LET r == extract_data(stdout)
       IN IF r.exc
          THEN /\ pc' = "idle"
               /\ outcome' = "raised"
               /\ UNCHANGED data
          ELSE /\ pc' = "update"
               /\ data' = r.data
               /\ UNCHANGED outcome
    /\ UNCHANGED <<objVars, stdout, stderr, updated, retval, runs, stopVars,
                   childVars, fsVars, obsVars, histVars>>
    /\ UNCHANGED optVars

\* "self._update_data(data)"
UpdateData ==
    /\ pc = "update"
    /\ _data' = MergedData(_data, data)
    /\ _files_list' = FilesAfter(_files_list, data)
    /\ _return_code' = CodeAfter(_return_code, data)
    /\ updated' = Updated(data)
    /\ pc' = "hook"
    /\ pLast' = IF IsAlreadyLine(stdout) THEN "already" ELSE pLast
    /\ outMerged' = IF stdout # EmptyStr THEN outMerged + 1 ELSE outMerged
    /\ UNCHANGED <<_proc, data_hook, logger, stdout, stderr, data, retval,
                   outcome, runs, stopVars, childVars, fsVars, obsVars,
                   stopAlive, stopDone, stopSeen, cLast, outWritten>>
    /\ UNCHANGED optVars

\* "if ...: self._hook_data()", DownloadObject._hook_data
HookData ==
    /\ pc = "hook"
    /\ IF ShouldHook(updated) /\ data_hook # "None"
       THEN cycleHooks' = cycleHooks + 1 /\ hookArg' = _data
       ELSE UNCHANGED <<cycleHooks, hookArg>>
    /\ pc' = "stderr"
    /\ UNCHANGED <<objVars, stdout, stderr, data, updated, retval, outcome, runs,
                   stopVars, childVars, fsVars, logged, histVars>>
    /\ UNCHANGED optVars

\* "if stderr != '': self._return_code = self.ERROR; self._log(stderr)"
Stderr ==
    /\ pc = "stderr"
    /\ IF stderr # EmptyStr
       THEN /\ _return_code' = ERROR
            /\ logged' = IF logger # "None" THEN Append(logged, stderr) ELSE logged
            /\ pLast' = "stderr"
       ELSE UNCHANGED <<_return_code, logged, pLast>>
    /\ pc' = "check"
    /\ UNCHANGED <<_files_list, _proc, _data, data_hook, logger, stdout, stderr,
                   data, updated, retval, outcome, runs, stopVars, childVars,
                   fsVars, cycleHooks, hookArg, stopAlive, stopDone, stopSeen,
                   cLast, outWritten, outMerged>>
    /\ UNCHANGED optVars

\* "return self._return_code"
Return ==
    /\ pc = "return"
    /\ retval' = _return_code
    /\ outcome' = "returned"
    /\ pc' = "idle"
    /\ UNCHANGED <<objVars, stdout, stderr, data, updated, runs, stopVars,
                   childVars, fsVars, obsVars, histVars>>
    /\ UNCHANGED optVars

\* ------------------------------------------------------------------------
\* DownloadObject.stop, called from another thread
\* ------------------------------------------------------------------------
\* "if self._proc_is_alive():"
StopCall ==
    /\ spc = "idle"
    /\ stopSeen' = TRUE
    /\ IF _proc_is_alive
       THEN spc' = "kill" /\ stopAlive' = TRUE
       ELSE UNCHANGED <<spc, stopAlive>>
    /\ UNCHANGED <<objVars, dlVars, childVars, fsVars, obsVars, stopDone, cLast,
                   pLast, outWritten, outMerged>>
    /\ UNCHANGED optVars

\* "self._proc.kill()": the process dies, what it had written stays readable
StopKill ==
    /\ spc = "kill"
    /\ child' = "exited"
    /\ cwrite' = NoWrite
    /\ spc' = "set"
    /\ UNCHANGED <<objVars, dlVars, outPipe, errPipe, nwritten, fsVars,
                   obsVars, histVars>>
    /\ UNCHANGED optVars

\* "self._proc.kill()" on a process that has exited and been reaped by poll():
\* os.kill fails with OSError and stop() is left before its last statement
StopKillRaises ==
    /\ spc = "kill"
    /\ child = "exited"
    /\ spc' = "idle"
    /\ UNCHANGED <<objVars, dlVars, childVars, fsVars, obsVars, histVars>>
    /\ UNCHANGED optVars

\* "self._return_code = self.STOPPED"
StopSet ==
    /\ spc = "set"
    /\ _return_code' = STOPPED
    /\ spc' = "idle"
    /\ stopDone' = stopAlive
    /\ UNCHANGED <<_files_list, _proc, _data, data_hook, logger, dlVars,
                   childVars, fsVars, obsVars, stopAlive, stopSeen, cLast, pLast,
                   outWritten, outMerged>>
    /\ UNCHANGED optVars

\* ------------------------------------------------------------------------
\* The child process: writes lines to its two pipes, then exits
\* ------------------------------------------------------------------------
PipeOf(s) == IF s = "out" THEN outPipe ELSE errPipe

\* the file the child has created when it prints "[download] Destination: "
\* followed by the file's path, as a set
LineFiles(line) ==
    IF /\ Len(line) > 4
       /\ SubSeq(line, 1, 4) = <<"[download]", " ", "Destination:", " ">>
    THEN {SubSeq(line, 5, Len(line))}
    ELSE {}

\* the child starts a write; it blocks while the pipe is full
ChildBegin(s, l) ==
    /\ child = "running"
    /\ cwrite = NoWrite
    /\ nwritten < MaxLines
    /\ cwrite' = [stream |-> s, line |-> l]
    /\ UNCHANGED <<objVars, dlVars, stopVars, child, outPipe, errPipe, nwritten,
                   fsVars, obsVars, histVars>>
    /\ UNCHANGED optVars

\* the pipe accepts the line
ChildFlush ==
    /\ child = "running"
    /\ cwrite # NoWrite
    /\ Len(PipeOf(cwrite.stream)) < PipeCap
    /\ IF cwrite.stream = "out"
       THEN /\ outPipe' = Append(outPipe, cwrite.line)
            /\ fs' = fs \cup LineFiles(cwrite.line)
            /\ outWritten' = IF rstrip(cwrite.line) # EmptyStr
                             THEN outWritten + 1 ELSE outWritten
            /\ cLast' = IF IsAlreadyLine(cwrite.line) THEN "already" ELSE cLast
            /\ UNCHANGED errPipe
       ELSE /\ errPipe' = Append(errPipe, cwrite.line)
            /\ cLast' = IF rstrip(cwrite.line) # EmptyStr THEN "stderr" ELSE cLast
            /\ UNCHANGED <<outPipe, fs, outWritten>>
    /\ cwrite' = NoWrite
    /\ nwritten' = nwritten + 1
    /\ UNCHANGED <<objVars, dlVars, stopVars, child, clearRaised,
                   obsVars, stopAlive, stopDone, stopSeen, pLast, outMerged>>
    /\ UNCHANGED optVars

\* the child exits once all it wrote has been accepted
ChildExit ==
    /\ child = "running"
    /\ cwrite = NoWrite
    /\ child' = "exited"
    /\ UNCHANGED <<objVars, dlVars, stopVars, cwrite, outPipe, errPipe, nwritten,
                   fsVars, obsVars, histVars>>
    /\ UNCHANGED optVars

\* ------------------------------------------------------------------------
\* DownloadObject.clear_dash
\* ------------------------------------------------------------------------
\* variant of the loop without the os.path.exists test: os.remove is called
\* on every entry and raises on a path that is not there
RECURSIVE ClearFromNoExists(_, _, _, _)
ClearFromNoExists(fl, i, files, fail) ==
    IF i > Len(fl) THEN [fs |-> files, raised |-> FALSE]
    ELSE IF fl[i] \in files /\ fl[i] \notin fail
         THEN ClearFromNoExists(fl, i + 1, files \ {fl[i]}, fail)
         ELSE [fs |-> files, raised |-> TRUE]

\* the loop from entry i on; os.remove fails (OSError) on the paths in fail
RECURSIVE ClearFrom(_, _, _, _)
ClearFrom(fl, i, files, fail) ==
    IF i > Len(fl) THEN [fs |-> files, raised |-> FALSE]
    ELSE IF fl[i] \in files
         THEN IF fl[i] \in fail
              THEN [fs |-> files, raised |-> TRUE]
              ELSE ClearFrom(fl, i + 1, files \ {fl[i]}, fail)
         ELSE ClearFrom(fl, i + 1, files, fail)

clear_dash(fail) ==
    /\ LET r == ClearFrom(_files_list, 1, fs, fail)
       IN fs' = r.fs /\ clearRaised' = r.raised
    /\ UNCHANGED <<objVars, dlVars, stopVars, childVars, obsVars, histVars>>
    /\ UNCHANGED optVars

\* ------------------------------------------------------------------------
\* Specification
\* ------------------------------------------------------------------------
DownloadStep ==
    \/ Download \/ CreateProcess \/ LoopCheck \/ ReadStdout \/ ReadStderr
    \/ Extract \/ UpdateData \/ HookData \/ Stderr \/ Return

StopStep == StopCall \/ StopKill \/ StopKillRaises \/ StopSet

ChildStep ==
    \/ \E l \in OutLines : ChildBegin("out", l)
    \/ \E l \in ErrLines : ChildBegin("err", l)
    \/ ChildFlush
    \/ ChildExit

ClearStep == \E fail \in SUBSET FsPaths : clear_dash(fail)

Next == DownloadStep \/ StopStep \/ ChildStep \/ ClearStep

Spec == Init /\ [][Next]_vars

\* ------------------------------------------------------------------------
\* Classifier specification: one invocation whose child prints lines drawn
\* from a larger set, among them a Destination line for every short path
\* ------------------------------------------------------------------------
PathAtoms == {"/", " ", "a"}

RECURSIVE StringsUpTo(_)
StringsUpTo(n) ==
    IF n = 0 THEN {<<>>}
    ELSE LET shorter == StringsUpTo(n - 1)
         IN shorter \cup {Append(p, c) : p \in shorter, c \in PathAtoms}

\* the paths drawn: they start and end with a non-blank atom
Paths == {p \in StringsUpTo(MaxPathLen) : p # <<>> /\ p[1] # " " /\ p[Len(p)] # " "}

DestPrefix == <<"[download]", " ", "Destination:", " ">>
LineDone == <<"[download]", " ", "100", "%", " ", "of", " ", "10MiB">>
LinePlaylist == <<"[download]", " ", "Downloading", " ", "video", " ", "1", " ",
                  "of", " ", "3">>
LineFfmpeg == <<"[ffmpeg]", " ", "Merging">>

\* a progress line and a playlist line cut short
LineProgressCut == <<"[download]", " ", "42", "%", " ", "of", " ", "10MiB">>
LinePlaylistCut == <<"[download]", " ", "Downloading", " ", "video">>

LineInputs ==
    {LineBlank, LinePre, LineAlready, LineProgress, LineDone, LinePlaylist,
     LineFfmpeg, LineBad, LineProgressCut, LinePlaylistCut}
    \cup {DestPrefix \o p : p \in Paths}

\* the state once download() has started its process
InitLine ==
    /\ _return_code = OK
    /\ _files_list = <<>>
    /\ _proc = "Popen"
    /\ _data = InitData
    /\ data_hook = "hook"
    /\ logger = "logger"
    /\ pc = "check" /\ stdout = EmptyStr /\ stderr = EmptyStr
    /\ data = EmptyDict /\ updated = FALSE
    /\ retval = NoCode /\ outcome = "running" /\ runs = 1
    /\ spc = "idle"
    /\ child = "running" /\ cwrite = NoWrite
    /\ outPipe = <<>> /\ errPipe = <<>> /\ nwritten = 0
    /\ fs = {} /\ clearRaised = FALSE
    /\ cycleHooks = 0 /\ hookArg = EmptyDict /\ logged = <<>>
    /\ stopAlive = FALSE /\ stopDone = FALSE /\ stopSeen = FALSE
    /\ cLast = "none" /\ pLast = "none"
    /\ outWritten = 0 /\ outMerged = 0
    /\ InitOptions

LoopStep ==
    \/ LoopCheck \/ ReadStdout \/ ReadStderr \/ Extract \/ UpdateData
    \/ HookData \/ Stderr \/ Return

ChildLineStep ==
    \/ \E l \in LineInputs : ChildBegin("out", l)
    \/ \E l \in ErrLines : ChildBegin("err", l)
    \/ ChildFlush
    \/ ChildExit

NextLine == LoopStep \/ ChildLineStep

SpecLine == InitLine /\ [][NextLine]_vars

\* ------------------------------------------------------------------------
\* OptionsParser
\* ------------------------------------------------------------------------
SUBS_LANG ==
    ("English" :> <<"en">>) @@ ("Greek" :> <<"gr">>) @@ ("Portuguese" :> <<"pt">>)
    @@ ("French" :> <<"fr">>) @@ ("Italian" :> <<"it">>) @@ ("Russian" :> <<"ru">>)
    @@ ("Spanish" :> <<"es">>) @@ ("German" :> <<"de">>)

VIDEO_FORMATS ==
    ("default" :> <<"0">>) @@ ("mp4 [1280x720]" :> <<"22">>)
    @@ ("mp4 [640x360]" :> <<"18">>) @@ ("webm [640x360]" :> <<"43">>)
    @@ ("flv [400x240]" :> <<"5">>) @@ ("3gp [320x240]" :> <<"36">>)
    @@ ("mp4 1080p(DASH)" :> <<"137">>) @@ ("mp4 720p(DASH)" :> <<"136">>)
    @@ ("mp4 480p(DASH)" :> <<"135">>) @@ ("mp4 360p(DASH)" :> <<"134">>)

DASH_AUDIO_FORMATS ==
    ("none" :> <<"none">>) @@ ("DASH m4a audio 128k" :> <<"140">>)
    @@ ("DASH webm audio 48k" :> <<"171">>)

AUDIO_QUALITY ==
    ("high" :> <<"0">>) @@ ("mid" :> <<"5">>) @@ ("low" :> <<"9">>)

\* utils.is_dash: the name is that of a DASH video or DASH audio format
is_dash(word) ==
    word \in {"mp4 1080p(DASH)", "mp4 720p(DASH)", "mp4 480p(DASH)",
              "mp4 360p(DASH)", "DASH m4a audio 128k", "DASH webm audio 48k"}

\* utils.fix_path (not among the sources): the output path is the save path
\* followed by the template, so the save path is taken as it is
fix_path(path) == path

\* str() of a non-negative int: its decimal digits
Digit == <<"0", "1", "2", "3", "4", "5", "6", "7", "8", "9">>

RECURSIVE str(_)
str(n) ==
    IF n < 10 THEN <<Digit[n + 1]>>
    ELSE str(n \div 10) \o <<Digit[(n % 10) + 1]>>

\* str.split(): the maximal runs without whitespace
Whitespace == {" ", "\t"}

RECURSIVE split_from(_, _, _)
split_from(s, i, cur) ==
    IF i > Len(s)
    THEN IF cur = <<>> THEN <<>> ELSE <<cur>>
    ELSE IF s[i] \in Whitespace
         THEN (IF cur = <<>> THEN <<>> ELSE <<cur>>) \o split_from(s, i + 1, <<>>)
         ELSE split_from(s, i + 1, Append(cur, s[i]))

split(s) == split_from(s, 1, <<>>)

\* "if cond: self.options_list.append(...)" for each of items
AppendIf(l, cond, items) == IF cond THEN l \o items ELSE l

_set_progress_options(l, o) == Append(l, <<"--newline">>)

_set_output_options(l, o) ==
    LET save_path == fix_path(o.save_path)
        l1 == Append(l, <<"-o">>)
        l2 == IF o.output_format = "id"
              THEN Append(l1, save_path \o <<"%", "(id)s.", "%", "(ext)s">>)
              ELSE IF o.output_format = "title"
              THEN Append(l1, save_path \o <<"%", "(title)s.", "%", "(ext)s">>)
              ELSE IF o.output_format = "custom"
              THEN Append(l1, save_path \o o.output_template)
              ELSE l1
    IN AppendIf(l2, o.restrict_filenames, << <<"--restrict-filenames">> >>)

_set_auth_options(l, o) ==
    LET l1 == AppendIf(l, o.username # EmptyStr, << <<"-u">>, o.username >>)
        l2 == AppendIf(l1, o.password # EmptyStr, << <<"-p">>, o.password >>)
    IN AppendIf(l2, o.video_password # EmptyStr,
                << <<"--video-password">>, o.video_password >>)

_set_connection_options(l, o) ==
    LET l1 == AppendIf(l, o.retries # 10, << <<"-R">>, str(o.retries) >>)
        l2 == AppendIf(l1, o.proxy # EmptyStr, << <<"--proxy">>, o.proxy >>)
        l3 == AppendIf(l2, o.user_agent # EmptyStr,
                       << <<"--user-agent">>, o.user_agent >>)
    IN AppendIf(l3, o.referer # EmptyStr, << <<"--referer">>, o.referer >>)

_set_video_options(l, o) ==
    IF o.video_format # "default"
    THEN LET video_format == VIDEO_FORMATS[o.video_format]
         IN IF is_dash(o.video_format) /\ is_dash(o.dash_audio_format)
            THEN l \o << <<"-f">>,
                         video_format \o <<"+">>
                             \o DASH_AUDIO_FORMATS[o.dash_audio_format] >>
            ELSE l \o << <<"-f">>, video_format >>
    ELSE l

_set_playlist_options(l, o) ==
    LET l1 == AppendIf(l, o.playlist_start # 1,
                       << <<"--playlist-start">>, str(o.playlist_start) >>)
        l2 == AppendIf(l1, o.playlist_end # 0,
                       << <<"--playlist-end">>, str(o.playlist_end) >>)
    IN AppendIf(l2, o.max_downloads # 0,
                << <<"--max-downloads">>, str(o.max_downloads) >>)

_set_filesystem_options(l, o) ==
    LET l1 == AppendIf(l, o.ignore_errors, << <<"-i">> >>)
        l2 == AppendIf(l1, o.write_description, << <<"--write-description">> >>)
        l3 == AppendIf(l2, o.write_info, << <<"--write-info-json">> >>)
        l4 == AppendIf(l3, o.write_thumbnail, << <<"--write-thumbnail">> >>)
        l5 == AppendIf(l4, o.min_filesize # <<"0">>,
                       << <<"--min-filesize">>, o.min_filesize >>)
    IN AppendIf(l5, o.max_filesize # <<"0">>,
                << <<"--max-filesize">>, o.max_filesize >>)

_set_subtitles_options(l, o) ==
    LET l1 == AppendIf(l, o.write_all_subs, << <<"--all-subs">> >>)
        l2 == AppendIf(l1, o.write_auto_subs, << <<"--write-auto-sub">> >>)
        l3 == AppendIf(l2, o.write_subs,
                       << <<"--write-sub">>, <<"--sub-lang">>,
                          SUBS_LANG[o.subs_lang] >>)
    IN AppendIf(l3, o.embed_subs, << <<"--embed-subs">> >>)

_set_audio_options(l, o) ==
    IF o.to_audio
    THEN LET l1 == l \o << <<"-x">>, <<"--audio-format">>, o.audio_format >>
             l2 == AppendIf(l1, o.audio_quality # "mid",
                            << <<"--audio-quality">>,
                               AUDIO_QUALITY[o.audio_quality] >>)
         IN AppendIf(l2, o.keep_video, << <<"-k">> >>)
    ELSE l

_set_other_options(l, o) ==
    IF o.cmd_args # EmptyStr THEN l \o split(o.cmd_args) ELSE l

\* a parse() that calls the groups in the order the class defines them
parse_definition_order(l, o) ==
    _set_other_options(
      _set_audio_options(
        _set_output_options(
          _set_subtitles_options(
            _set_filesystem_options(
              _set_video_options(
                _set_connection_options(
                  _set_auth_options(
                    _set_playlist_options(
                      _set_progress_options(l, o), o), o), o), o), o), o), o),
        o), o)

\* self.options_list after parse(), from the list and the options before it
parse(l, o) ==
    _set_other_options(
      _set_audio_options(
        _set_subtitles_options(
          _set_filesystem_options(
            _set_playlist_options(
              _set_video_options(
                _set_connection_options(
                  _set_auth_options(
                    _set_output_options(
                      _set_progress_options(l, o), o), o), o), o), o), o), o),
        o), o)

\* the owner of the configuration sets one option, before the parser exists
SetOption(k, v) ==
    /\ parser = "None"
    /\ options[k] = OptDefault[k]
    /\ Cardinality({x \in OptKeys : options[x] # OptDefault[x]}) < MaxChanged
    /\ options' = [options EXCEPT ![k] = v]
    /\ UNCHANGED <<downloadVars, parser, options_list, parseRet, parses>>

\* OptionsParser.__init__
NewParser ==
    /\ parser = "None"
    /\ parser' = "OptionsParser"
    /\ options_list' = <<>>
    /\ UNCHANGED <<downloadVars, options, parseRet, parses>>

\* OptionsParser.parse
Parse ==
    /\ parser # "None"
    /\ parses < MaxParses
    /\ options_list' = parse(options_list, options)
    /\ parseRet' = options_list'
    /\ parses' = parses + 1
    /\ UNCHANGED <<downloadVars, options, parser>>

NextOptions ==
    \/ \E k \in OptKeys : \E v \in OptAlt[k] : SetOption(k, v)
    \/ NewParser
    \/ Parse

\* the parser does not look at the DownloadObject: one of its initial states
InitParser == Init /\ data_hook = "hook"

SpecOptions == InitParser /\ [][NextOptions]_vars

\* ------------------------------------------------------------------------
\* Properties
\* ------------------------------------------------------------------------
\* C1: if stop() finds the child process alive during an invocation, kills it
\* and sets its result before download() returns, that invocation of
\* download() returns STOPPED.
C1_StopYieldsStopped ==
    (pc = "return" /\ stopDone) => _return_code = STOPPED

\* C2: no state has the supervisor blocked reading one stream (nothing to read,
\* child alive) while the child is blocked writing to the other, full, pipe.
C2_NoPipeDeadlock ==
    /\ ~(/\ pc = "read_stdout" /\ outPipe = <<>> /\ child = "running"
         /\ cwrite.stream = "err" /\ Len(errPipe) >= PipeCap)
    /\ ~(/\ pc = "read_stderr" /\ errPipe = <<>> /\ child = "running"
         /\ cwrite.stream = "out" /\ Len(outPipe) >= PipeCap)

\* C3: if the last result-affecting line the child wrote is a non-empty stderr
\* line (no already-downloaded line after it) and stop() was not called, then
\* download() returns ERROR and the logger, when there is one, was given the
\* text.
C3_StderrYieldsError ==
    (outcome = "returned" /\ ~stopSeen /\ cLast = "stderr")
        => (retval = ERROR /\ (logger # "None" => Len(logged) > 0))

\* C4: without stop(), the code download() returns is that of the last
\* result-affecting line the loop processed in this invocation: ERROR for a
\* stderr line, ALREADY for an already-downloaded stdout line, OK when there
\* was none (nothing carries over from an earlier invocation).
C4_ResultIsLastProcessed ==
    (outcome = "returned" /\ ~stopSeen)
        => retval = (CASE pLast = "stderr" -> ERROR
                       [] pLast = "already" -> ALREADY
                       [] OTHER -> OK)

\* C4 witness: an invocation that merged a Destination line (status
\* Downloading) and then an already-downloaded line has returned ALREADY.
C4_Witness ==
    /\ outcome = "returned" /\ ~stopSeen
    /\ pLast = "already" /\ outMerged = 2
    /\ Len(_files_list) = 1
    /\ retval = ALREADY

\* C5: when download() returns (stop() not called), every non-empty line the
\* child wrote to stdout in this invocation has been classified and merged.
C5_AllStdoutMerged ==
    (outcome = "returned" /\ ~stopSeen) => outMerged = outWritten

\* C6: at the moment an invocation begins, all eight fields are unset.
C6_FreshStateAtStart ==
    pc = "create" => _data = InitData

\* C7: a field of the progress state changes only in a merge whose event
\* contains that field; every field the event lacks keeps its value.
C7_MergeFrame ==
    [][\A k \in Keys :
          _data'[k] # _data[k] => (pc = "update" /\ k \in DOMAIN data)]_vars

\* C7 witness: an event without filename has been merged and the filename set
\* by an earlier event is still there.
C7_Witness ==
    /\ pc = "hook"
    /\ DOMAIN data # {} /\ "filename" \notin DOMAIN data
    /\ _data["filename"] # None

\* C8: merge returns true iff the event has a field; with an observer, the
\* loop calls it once after a line iff merge returned true and never before
\* the merge, so never for an empty line or a stderr-only cycle; its argument
\* is the mapping of exactly the eight fields.
C8_HookIffMerged ==
    /\ pc \in {"hook", "stderr"} => updated = (DOMAIN data # {})
    /\ (pc = "stderr" /\ data_hook # "None")
          => cycleHooks = (IF updated THEN 1 ELSE 0)
    /\ pc \in {"read_stdout", "read_stderr", "extract", "update", "hook"}
          => cycleHooks = 0
    /\ (pc = "stderr" /\ stdout = EmptyStr) => cycleHooks = 0
    /\ cycleHooks <= 1
    /\ hookArg # EmptyDict => DOMAIN hookArg = Keys

\* C8 witness: the observer has been called once for a line, with a mapping in
\* which an unset field is None.
C8_Witness ==
    /\ pc = "stderr" /\ cycleHooks = 1
    /\ stdout # EmptyStr
    /\ hookArg["status"] = Downloading
    /\ hookArg["percent"] = None

\* C9: for a line "[download] Destination: <path>", <path> starting and ending
\* with a non-blank, classify yields filename = <path>; after the merge the last
\* entry of the file record is <path> and the state's filename its base name.
IsDestLine(line) ==
    /\ Len(line) > Len(DestPrefix)
    /\ SubSeq(line, 1, Len(DestPrefix)) = DestPrefix
    /\ line[Len(DestPrefix) + 1] # " "
    /\ line[Len(line)] # " "

DestPath(line) == SubSeq(line, Len(DestPrefix) + 1, Len(line))

C9_DestinationKeepsPath ==
    /\ (pc = "update" /\ IsDestLine(stdout))
          => ("filename" \in DOMAIN data /\ data["filename"] = DestPath(stdout))
    /\ (pc = "hook" /\ IsDestLine(stdout))
          => /\ _files_list # <<>>
             /\ _files_list[Len(_files_list)] = DestPath(stdout)
             /\ _data["filename"] = basename(DestPath(stdout))

\* C10: the file record only grows at its end: no step shortens it or changes
\* an entry it holds.
C10_AppendOnly ==
    [][/\ Len(_files_list') >= Len(_files_list)
       /\ SubSeq(_files_list', 1, Len(_files_list)) = _files_list]_vars

\* C10 witness: the second invocation has added an entry to the one the first
\* left, and clear_dash() has deleted the files without touching the record.
C10_Witness ==
    /\ runs = 2 /\ outMerged = 1
    /\ _files_list = <<PathA, PathB>>
    /\ fs = {}

\* the paths the file record lists
Listed == {_files_list[i] : i \in 1..Len(_files_list)}

\* C11: a clear_dash() in which no deletion fails leaves no listed path in
\* the file system, raises nothing (a listed path that is not there is
\* skipped), leaves every file that is not listed where it was, and a second
\* call right after it changes nothing.
C11_ClearDashRemovesListed ==
    [][clear_dash({}) =>
          /\ ~clearRaised'
          /\ Listed \cap fs' = {}
          /\ fs' = fs \ Listed
          /\ ClearFrom(_files_list, 1, fs', {}) = [fs |-> fs', raised |-> FALSE]]_vars

\* C11 witness: clear_dash() has deleted the listed file /tmp/a (the child
\* had created it) and left /tmp/b, which the record does not list.
C11_Witness ==
    /\ _files_list = <<PathA>>
    /\ fs = {PathB}
    /\ ~clearRaised

\* C12: a clear_dash() in which the deletion of one file fails raises nothing
\* to its caller and still deletes every other listed file that exists.
C12_ClearDashSurvivesFailure ==
    [][\A p \in FsPaths :
          clear_dash({p}) =>
              /\ ~clearRaised'
              /\ (Listed \ {p}) \cap fs' = {}]_vars

\* C13: extract_data raises on no line: for every line read, the header
\* alone and cut progress or playlist lines included, it returns a (possibly
\* empty or partial) event, and no line makes download() end by an exception.
C13_ClassifyNeverRaises ==
    /\ pc = "extract" => ~extract_data(stdout).exc
    /\ outcome # "raised"

\* the tokens after the header of a "[download]" line whose first token
\* holds a percent sign
IsPercentLine(line) ==
    LET toks == Tokens(line)
    IN /\ Len(toks) >= 2
       /\ toks[1] = <<"[download]">>
       /\ "%" \in {toks[2][i] : i \in 1..Len(toks[2])}

\* C17: for a "[download]" line whose first token after the header holds a
\* percent sign, extract_data returns an event with status Downloading and,
\* for the token "100%", speed = "" and eta = "" and neither percent nor
\* filesize; for any other token, percent, filesize, speed and eta equal to
\* the tokens at positions 0, 2, 4 and 6 after the header.
C17_ProgressFields ==
    (pc = "extract" /\ IsPercentLine(stdout)) =>
        LET rest == Tail(Tokens(stdout))
            r == extract_data(stdout)
            d == r.data
        IN /\ ~r.exc
           /\ "status" \in DOMAIN d /\ d["status"] = Downloading
           /\ IF rest[1] = <<"100", "%">>
              THEN /\ {"speed", "eta"} \subseteq DOMAIN d
                   /\ d["speed"] = EmptyStr /\ d["eta"] = EmptyStr
                   /\ "percent" \notin DOMAIN d /\ "filesize" \notin DOMAIN d
              ELSE /\ Len(rest) >= 7
                   /\ {"percent", "filesize", "speed", "eta"} \subseteq DOMAIN d
                   /\ d["percent"] = rest[1] /\ d["filesize"] = rest[3]
                   /\ d["speed"] = rest[5] /\ d["eta"] = rest[7]

\* C16: a stop() called while no process is running (before any download(),
\* or after the child has exited) returns at once: it kills nothing and
\* leaves the result code, the progress state and the file record as they
\* were, at every such call.
C16_StopIdleIsNoOp ==
    [][(StopCall /\ child # "running") =>
          /\ spc' = "idle"
          /\ child' = child /\ _proc' = _proc
          /\ _return_code' = _return_code
          /\ _data' = _data
          /\ _files_list' = _files_list]_vars

\* C16 witness: download() has returned ALREADY, the child has exited, and a
\* stop() called in this invocation found no live process; the result code is
\* still ALREADY.
C16_Witness ==
    /\ outcome = "returned" /\ retval = ALREADY
    /\ child = "exited"
    /\ stopSeen /\ ~stopAlive /\ spc = "idle"
    /\ _return_code = ALREADY

\* the status values the progress state may hold
StatusAllowed == {None, Downloading, PostProcessing, PreProcessing}

\* C18: the merge of an event whose status is Already Downloaded sets the
\* result code to ALREADY, and in every state the status of the progress
\* state, and of every mapping given to the observer, is unset, Downloading,
\* Post Processing or Pre Processing, never Already Downloaded.
C18_AlreadyNeverInState ==
    [][/\ _data'["status"] \in StatusAllowed
       /\ hookArg' # EmptyDict => hookArg'["status"] \in StatusAllowed
       /\ (/\ pc = "update" /\ pc' = "hook"
           /\ "status" \in DOMAIN data
           /\ data["status"] = AlreadyDownloaded)
             => _return_code' = ALREADY]_vars

\* C18 witness: an already-downloaded line has been merged: the result code
\* is ALREADY and the status, Downloading before, is unset again.
C18_Witness ==
    /\ pc = "hook" /\ IsAlreadyLine(stdout)
    /\ _return_code = ALREADY
    /\ _data["status"] = None
    /\ _data["filename"] # None

\* C19: in a cycle stderr is read only after stdout gave '', so a cycle has
\* no stdout line and stderr line together; a non-empty stderr line is not
\* classified or merged, sets the result code to ERROR, goes to the logger
\* once (in the cycle's last step only), leaves the child process as it is,
\* and the loop goes on to its next test.
C19_ReadPolicy ==
    [][/\ pc' = "read_stderr" => stdout' = EmptyStr
       /\ pc' \in {"extract", "update", "hook", "stderr"}
             => (stdout' = EmptyStr \/ stderr' = EmptyStr)
       /\ (pc' \in {"update", "hook", "stderr"} /\ stderr' # EmptyStr)
             => data' = EmptyDict
       /\ (pc \in {"extract", "update", "hook"} /\ stderr # EmptyStr)
             => /\ logged' = logged
                /\ _data' = _data /\ _files_list' = _files_list
                /\ hookArg' = hookArg
       /\ (pc = "stderr" /\ pc' # pc /\ stderr # EmptyStr)
             => /\ _return_code' = ERROR
                /\ logged' = IF logger # "None" THEN Append(logged, stderr)
                                               ELSE logged
                /\ _data' = _data /\ _files_list' = _files_list
                /\ child' = child
                /\ pc' = "check" /\ outcome' = "running"]_vars

\* C19 witness: a cycle has handled the stderr line: it is logged once, the
\* code is ERROR, nothing was merged, the child still runs and the loop is
\* reading again.
C19_Witness ==
    /\ pc = "read_stdout" /\ child = "running"
    /\ logged = <<LineErr>>
    /\ _return_code = ERROR
    /\ outMerged = 0 /\ _data = InitData

\* C20: download() returns STOPPED only if a stop() found the process of
\* that same invocation alive; a stop() that began in an earlier invocation
\* does not make a later invocation return STOPPED.
C20_StoppedOnlyIfStopped ==
    (outcome = "returned" /\ retval = STOPPED) => stopAlive

\* the output path of the claims: the save path followed by the template of
\* the naming mode
OutputPath(o) ==
    o.save_path \o
        (IF o.output_format = "id" THEN <<"%", "(id)s.", "%", "(ext)s">>
         ELSE IF o.output_format = "title" THEN <<"%", "(title)s.", "%", "(ext)s">>
         ELSE o.output_template)

\* the conditionally emitted flags: group (1 progress .. 10 extra
\* arguments), guard, and the values that follow the flag
CondFlags(o) ==
    {[flag |-> <<"--restrict-filenames">>, group |-> 2,
      on |-> o.restrict_filenames, val |-> <<>>],
     [flag |-> <<"-u">>, group |-> 3,
      on |-> o.username # EmptyStr, val |-> <<o.username>>],
     [flag |-> <<"-p">>, group |-> 3,
      on |-> o.password # EmptyStr, val |-> <<o.password>>],
     [flag |-> <<"--video-password">>, group |-> 3,
      on |-> o.video_password # EmptyStr, val |-> <<o.video_password>>],
     [flag |-> <<"-R">>, group |-> 4,
      on |-> o.retries # 10, val |-> <<str(o.retries)>>],
     [flag |-> <<"--proxy">>, group |-> 4,
      on |-> o.proxy # EmptyStr, val |-> <<o.proxy>>],
     [flag |-> <<"--user-agent">>, group |-> 4,
      on |-> o.user_agent # EmptyStr, val |-> <<o.user_agent>>],
     [flag |-> <<"--referer">>, group |-> 4,
      on |-> o.referer # EmptyStr, val |-> <<o.referer>>],
     [flag |-> <<"-f">>, group |-> 5,
      on |-> o.video_format # "default",
      val |-> <<IF is_dash(o.video_format) /\ is_dash(o.dash_audio_format)
                THEN VIDEO_FORMATS[o.video_format] \o <<"+">>
                         \o DASH_AUDIO_FORMATS[o.dash_audio_format]
                ELSE VIDEO_FORMATS[o.video_format]>>],
     [flag |-> <<"--playlist-start">>, group |-> 6,
      on |-> o.playlist_start # 1, val |-> <<str(o.playlist_start)>>],
     [flag |-> <<"--playlist-end">>, group |-> 6,
      on |-> o.playlist_end # 0, val |-> <<str(o.playlist_end)>>],
     [flag |-> <<"--max-downloads">>, group |-> 6,
      on |-> o.max_downloads # 0, val |-> <<str(o.max_downloads)>>],
     [flag |-> <<"-i">>, group |-> 7, on |-> o.ignore_errors, val |-> <<>>],
     [flag |-> <<"--write-description">>, group |-> 7,
      on |-> o.write_description, val |-> <<>>],
     [flag |-> <<"--write-info-json">>, group |-> 7,
      on |-> o.write_info, val |-> <<>>],
     [flag |-> <<"--write-thumbnail">>, group |-> 7,
      on |-> o.write_thumbnail, val |-> <<>>],
     [flag |-> <<"--min-filesize">>, group |-> 7,
      on |-> o.min_filesize # <<"0">>, val |-> <<o.min_filesize>>],
     [flag |-> <<"--max-filesize">>, group |-> 7,
      on |-> o.max_filesize # <<"0">>, val |-> <<o.max_filesize>>],
     [flag |-> <<"--all-subs">>, group |-> 8,
      on |-> o.write_all_subs, val |-> <<>>],
     [flag |-> <<"--write-auto-sub">>, group |-> 8,
      on |-> o.write_auto_subs, val |-> <<>>],
     [flag |-> <<"--write-sub">>, group |-> 8,
      on |-> o.write_subs, val |-> <<>>],
     [flag |-> <<"--sub-lang">>, group |-> 8,
      on |-> o.write_subs, val |-> <<SUBS_LANG[o.subs_lang]>>],
     [flag |-> <<"--embed-subs">>, group |-> 8,
      on |-> o.embed_subs, val |-> <<>>],
     [flag |-> <<"-x">>, group |-> 9, on |-> o.to_audio, val |-> <<>>],
     [flag |-> <<"--audio-format">>, group |-> 9,
      on |-> o.to_audio, val |-> <<o.audio_format>>],
     [flag |-> <<"--audio-quality">>, group |-> 9,
      on |-> o.to_audio /\ o.audio_quality # "mid",
      val |-> <<AUDIO_QUALITY[o.audio_quality]>>],
     [flag |-> <<"-k">>, group |-> 9,
      on |-> o.to_audio /\ o.keep_video, val |-> <<>>]}

\* the group of a flag of the list, 0 for a value
GroupOf(x, o) ==
    IF x = <<"--newline">> THEN 1
    ELSE IF x = <<"-o">> THEN 2
    ELSE IF \E c \in CondFlags(o) : c.flag = x
         THEN (CHOOSE c \in CondFlags(o) : c.flag = x).group
         ELSE 0

\* every optional field holds its sentinel
AllSentinel(o) ==
    \A k \in OptKeys \ {"save_path", "output_format", "output_template"} :
        o[k] = OptDefault[k]

\* what C14 says of a list L returned for the options o
ListAsClaimed(L, o) ==
    LET extra == IF o.cmd_args # EmptyStr THEN split(o.cmd_args) ELSE <<>>
        n == Len(L) - Len(extra)
    IN /\ n >= 3
       /\ L[1] = <<"--newline">> /\ L[2] = <<"-o">> /\ L[3] = OutputPath(o)
       /\ \A c \in CondFlags(o) :
             /\ (\E i \in 1..n : L[i] = c.flag) <=> c.on
             /\ c.on => \E i \in 1..n :
                           /\ L[i] = c.flag
                           /\ i + Len(c.val) <= n
                           /\ SubSeq(L, i + 1, i + Len(c.val)) = c.val
       /\ \A i, j \in 1..n :
             (i < j /\ GroupOf(L[i], o) > 0 /\ GroupOf(L[j], o) > 0)
                 => GroupOf(L[i], o) <= GroupOf(L[j], o)
       /\ SubSeq(L, n + 1, Len(L)) = extra
       /\ AllSentinel(o) => L = <<L[1], L[2], L[3]>>

\* C14: for every configuration, the list that parse() of a new
\* OptionsParser returns starts with the progress flag, '-o' and the save
\* path plus template; a conditional flag is in it (followed by its value)
\* iff its guard holds; the flags come in the order of the groups progress,
\* output, auth, connection, video format, playlist, filesystem, subtitles,
\* audio, extra arguments; and when every optional field holds its sentinel
\* the list is exactly those first three elements.
C14_ListAsClaimed ==
    parses = 1 => ListAsClaimed(parseRet, options)

\* C14 witness: a new parser has parsed a configuration with a username,
\* audio extraction and extra arguments: ten elements from five groups.
C14_Witness ==
    /\ parses = 1
    /\ options.username # EmptyStr /\ options.to_audio
    /\ options.cmd_args # EmptyStr
    /\ Len(parseRet) = 10
    /\ parseRet[4] = <<"-u">> /\ parseRet[6] = <<"-x">>
    /\ parseRet[10] = <<"bar">>

\* C15: a parse() call on a parser that has parsed before returns the list
\* the call before it returned, and no parse() call changes the options.
C15_ParseDeterministic ==
    [][parses' = parses + 1 =>
          /\ options' = options
          /\ parses >= 1 => parseRet' = parseRet]_vars

====
